---- MODULE Spec2Model ----
(***************************************************************************)
(* A model of the secret-tree crate: SecretTree (src/src/lib.rs), the      *)
(* libsodium-compatible key derivation (src/src/kdf.rs) and the byte-slice *)
(* adapter (src/src/byte_slice.rs).                                        *)
(*                                                                         *)
(* Tree instances live in numbered slots that are never reused, so "the    *)
(* same instance" is a slot number.  A slot's `status` is the ownership    *)
(* state Rust tracks for the value: "free" (not constructed yet), "live"   *)
(* (owned, usable), "gone" (moved into a consuming method or dropped).     *)
(* A slot's `seed` is the content of the Secret<[u8; 32]> storage.         *)
(*                                                                         *)
(* Blake2b itself is not part of the crate (blake2_rfc).  It is modelled   *)
(* as a free constructor over what the crate hands to it: the parameter    *)
(* block, the message and the digest length read from the block.  Two      *)
(* digests are equal exactly when these inputs are equal, which is the     *)
(* collision resistance the crate relies on.                               *)
(***************************************************************************)
EXTENDS Integers, Sequences, FiniteSets, TLC

VARIABLES trees, store, bigEndian, fromSliceErr, aborted, call

vars == <<trees, store, bigEndian, fromSliceErr, aborted, call>>

(***************************************************************************)
(* Bounds of the model.                                                    *)
(***************************************************************************)
\* instances in a run of Spec, of SpecPaths and of SpecFill
MaxTrees == 3

MaxPathTrees == 4

MaxFillTrees == 2

\* strings handed to the constructors of Name have at most this many bytes
MaxNameInput == 17

\* slices handed to from_slice have at most this many bytes
MaxSliceLen == 34

(***************************************************************************)
(* Program constants.                                                      *)
(***************************************************************************)
SEED_LEN == 32

CONTEXT_LEN == 8

SALT_LEN == 16

MIN_OUTPUT_LEN == 16

MAX_OUTPUT_LEN == 64

KEY_PADDING_LEN == 96

FANOUT_AND_DEPTH == 16842752

(***************************************************************************)
(* Bytes and words.                                                        *)
(* A u64 is kept as four 16-bit limbs, least significant first.            *)
(***************************************************************************)
Zeros(n) == [i \in 1..n |-> 0]

Pad(bytes, n) == bytes \o Zeros(n - Len(bytes))

ReadU64LE(b) ==
  << b[1] + 256 * b[2], b[3] + 256 * b[4], b[5] + 256 * b[6], b[7] + 256 * b[8] >>

\* a u64 given as a natural number below 2^31
U64(n) == << n % 65536, n \div 65536, 0, 0 >>

Raw(b) == [kind |-> "raw", bytes |-> b]

ByteLen(v) == IF v.kind = "raw" THEN Len(v.bytes) ELSE v.len

(***************************************************************************)
(* Context tags of SecretTree.                                             *)
(***************************************************************************)
FILL_BYTES_CONTEXT == << 98, 121, 116, 101, 115, 0, 0, 0 >>

\* the tag of fill pasted for rng
RngContextPasted == << 98, 121, 116, 101, 115, 0, 0, 0 >>

RNG_CONTEXT == << 114, 110, 103, 0, 0, 0, 0, 0 >>

\* the tag of index pasted for name
NameContextPasted == << 105, 110, 100, 101, 120, 0, 0, 0 >>

NAME_CONTEXT == << 110, 97, 109, 101, 0, 0, 0, 0 >>

INDEX_CONTEXT == << 105, 110, 100, 101, 120, 0, 0, 0 >>

DIGEST_START_CONTEXT == << 100, 105, 103, 101, 115, 116, 48, 0 >>

DIGEST_END_CONTEXT == << 100, 105, 103, 101, 115, 116, 49, 0 >>

(***************************************************************************)
(* kdf.rs: the parameter block, the salt encoder, derive_key.              *)
(***************************************************************************)
Blake2bParamsNew == [w0 |-> FANOUT_AND_DEPTH, salt |-> << U64(0), U64(0) >>,
                     pers |-> U64(0)]

SetDigestLen(p, n) == [p EXCEPT !.w0 = (p.w0 - (p.w0 % 256)) + n]

\* the key length written over everything above the digest length
SetKeyLenClobbering(p, n) == [p EXCEPT !.w0 = (p.w0 % 256) + n * 256]

SetKeyLen(p, n) ==
  [p EXCEPT !.w0 = (p.w0 - ((p.w0 \div 256) % 256) * 256) + n * 256]

SetSalt(p, s) == [p EXCEPT !.salt = s]

SetPersonalization(p, c) == [p EXCEPT !.pers = ReadU64LE(c)]

\* the eight 64-bit words of the block
Build(p) == << U64(p.w0), U64(0), U64(0), U64(0),
               p.salt[1], p.salt[2], p.pers, U64(0) >>

IndexNone == [variant |-> "None"]

IndexNumber(i) == [variant |-> "Number", n |-> i]

IndexBytes(b) == [variant |-> "Bytes", bytes |-> b]

ToSalt(index) ==
  CASE index.variant = "None" -> << U64(0), U64(0) >>
    [] index.variant = "Number" -> << U64(index.n), U64(0) >>
    [] index.variant = "Bytes" ->
         << ReadU64LE(SubSeq(index.bytes, 1, 8)),
            ReadU64LE(SubSeq(index.bytes, 9, 16)) >>

\* Blake2b::with_parameter_block, two updates, finalize: the digest length
\* is the low byte of word 0 of the block.
Blake2b(params, key, padLen) ==
  [kind |-> "blake2b", params |-> params, key |-> key, pad |-> padLen,
   len |-> params[1][1] % 256]

DeriveParams(len, index, context) ==
  Build(SetPersonalization(
          SetSalt(SetKeyLen(SetDigestLen(Blake2bParamsNew, len % 256),
                            SEED_LEN % 256),
                  ToSalt(index)),
          context))

\* derive_key: [panic |-> TRUE] when an assertion fails, else the output
DeriveKey(len, index, context, key) ==
  IF ~(len >= MIN_OUTPUT_LEN /\ len <= MAX_OUTPUT_LEN)
  THEN [panic |-> TRUE, msg |-> "invalid output length, 16..=64 bytes expected"]
  ELSE LET digest == Blake2b(DeriveParams(len, index, context), key,
                             KEY_PADDING_LEN)
       IN IF digest.len # len
          THEN [panic |-> TRUE, msg |-> "assertion failed: digest.len() == output.len()"]
          ELSE [panic |-> FALSE, out |-> digest]

\* try_derive_key: the typed result in place of the assertion
TryDeriveKey(len, index, context, key) ==
  IF len < MIN_OUTPUT_LEN
  THEN [ok |-> FALSE,
        err |-> [variant |-> "BufferTooSmall", size |-> len,
                 bound |-> MIN_OUTPUT_LEN]]
  ELSE IF len > MAX_OUTPUT_LEN
  THEN [ok |-> FALSE,
        err |-> [variant |-> "BufferTooLarge", size |-> len,
                 bound |-> MAX_OUTPUT_LEN]]
  ELSE LET r == DeriveKey(len, index, context, key)
       IN IF r.panic THEN [ok |-> FALSE, panic |-> TRUE, msg |-> r.msg]
          ELSE [ok |-> TRUE, out |-> r.out]

(***************************************************************************)
(* Blake2b as the blake2_rfc crate computes it (RFC 7693), for a message   *)
(* of one block: what a digest record stands for, byte by byte.  64-bit    *)
(* words are four 16-bit limbs.                                            *)
(***************************************************************************)
RECURSIVE XorBits(_, _, _)
XorBits(x, y, n) ==
  IF n = 0 THEN 0
  ELSE ((x + y) % 2) + 2 * XorBits(x \div 2, y \div 2, n - 1)

Xor64(a, b) == [i \in 1..4 |-> XorBits(a[i], b[i], 16)]

\* wrapping_add
Add64(a, b) ==
  LET s1 == a[1] + b[1]
      s2 == a[2] + b[2] + (s1 \div 65536)
      s3 == a[3] + b[3] + (s2 \div 65536)
      s4 == a[4] + b[4] + (s3 \div 65536)
  IN << s1 % 65536, s2 % 65536, s3 % 65536, s4 % 65536 >>

RotrLimbs(w, k) == [i \in 1..4 |-> w[((i - 1 + k) % 4) + 1]]

RotrBits(w, k) ==
  IF k = 0 THEN w
  ELSE [i \in 1..4 |-> (w[i] \div (2 ^ k))
                         + (w[(i % 4) + 1] % (2 ^ k)) * (2 ^ (16 - k))]

\* rotate_right
Rotr64(w, n) == RotrBits(RotrLimbs(w, n \div 16), n % 16)

WriteU64LE(w) ==
  << w[1] % 256, w[1] \div 256, w[2] % 256, w[2] \div 256,
     w[3] % 256, w[3] \div 256, w[4] % 256, w[4] \div 256 >>

ALL_ONES == << 65535, 65535, 65535, 65535 >>

BLAKE2B_ROUNDS == 12

BLAKE2B_BLOCK_LEN == 128

\* the initialization vector of Blake2b (0x6a09e667f3bcc908, ...)
BLAKE2B_IV ==
  << << 51464, 62396, 58983, 27145 >>,
     << 42811, 33994, 44677, 47975 >>,
     << 63531, 65172, 62322, 15470 >>,
     << 14065, 24349, 62778, 42319 >>,
     << 33489, 44518, 21119, 20750 >>,
     << 27679, 11070, 26764, 39685 >>,
     << 48491, 64321, 55723, 8067 >>,
     << 8569, 4990, 52505, 23520 >> >>

\* the message schedule: row r + 1 is the permutation of round r, and the
\* entries are positions in a sequence that starts at 1
SIGMA ==
  << << 1, 2, 3, 4, 5, 6, 7, 8, 9, 10, 11, 12, 13, 14, 15, 16 >>,
     << 15, 11, 5, 9, 10, 16, 14, 7, 2, 13, 1, 3, 12, 8, 6, 4 >>,
     << 12, 9, 13, 1, 6, 3, 16, 14, 11, 15, 4, 7, 8, 2, 10, 5 >>,
     << 8, 10, 4, 2, 14, 13, 12, 15, 3, 7, 6, 11, 5, 1, 16, 9 >>,
     << 10, 1, 6, 8, 3, 5, 11, 16, 15, 2, 12, 13, 7, 9, 4, 14 >>,
     << 3, 13, 7, 11, 1, 12, 9, 4, 5, 14, 8, 6, 16, 15, 2, 10 >>,
     << 13, 6, 2, 16, 15, 14, 5, 11, 1, 8, 7, 4, 10, 3, 9, 12 >>,
     << 14, 12, 8, 15, 13, 2, 4, 10, 6, 1, 16, 5, 9, 7, 3, 11 >>,
     << 7, 16, 15, 10, 12, 4, 1, 9, 13, 3, 14, 8, 2, 5, 11, 6 >>,
     << 11, 3, 9, 5, 8, 7, 2, 6, 16, 12, 10, 15, 4, 13, 14, 1 >> >>

\* the positions in the work vector the eight mixings of a round act on:
\* four columns, then four diagonals
G_LANES ==
  << << 1, 5, 9, 13 >>, << 2, 6, 10, 14 >>, << 3, 7, 11, 15 >>,
     << 4, 8, 12, 16 >>, << 1, 6, 11, 16 >>, << 2, 7, 12, 13 >>,
     << 3, 8, 9, 14 >>, << 4, 5, 10, 15 >> >>

\* the mixing function G on positions a, b, c, d with message words x, y
MixG(v, a, b, c, d, x, y) ==
  LET a1 == Add64(Add64(v[a], v[b]), x)
      d1 == Rotr64(Xor64(v[d], a1), 32)
      c1 == Add64(v[c], d1)
      b1 == Rotr64(Xor64(v[b], c1), 24)
      a2 == Add64(Add64(a1, b1), y)
      d2 == Rotr64(Xor64(d1, a2), 16)
      c2 == Add64(c1, d2)
      b2 == Rotr64(Xor64(b1, c2), 63)
  IN [v EXCEPT ![a] = a2, ![b] = b2, ![c] = c2, ![d] = d2]

\* the key alone, with no padding after it
KeyMessageUnpadded(digest) == digest.key.bytes

\* digest.update(key); digest.update(&[0_u8; 96])
KeyMessage(digest) == digest.key.bytes \o Zeros(digest.pad)

\* the sixteen little-endian words of the block, zero-filled at its end
MessageWords(msg) ==
  [k \in 1..16 |->
     ReadU64LE(SubSeq(Pad(msg, BLAKE2B_BLOCK_LEN), 8 * (k - 1) + 1, 8 * k))]

\* a chaining value that leaves out the digest length, the low byte of
\* word 0 of the block
InitialStateLenBlind(params) ==
  [i \in 1..8 |->
     Xor64(BLAKE2B_IV[i],
           IF i = 1
           THEN [params[1] EXCEPT ![1] = @ - (@ % 256)]
           ELSE params[i])]

\* with_parameter_block: the chaining value is the IV xor the block
InitialState(params) == [i \in 1..8 |-> Xor64(BLAKE2B_IV[i], params[i])]

\* the work vector of the last block of a message of t bytes
WorkVector(h, t) ==
  [i \in 1..16 |->
     IF i <= 8 THEN h[i]
     ELSE IF i = 13 THEN Xor64(BLAKE2B_IV[5], U64(t))
     ELSE IF i = 15 THEN Xor64(BLAKE2B_IV[7], ALL_ONES)
     ELSE BLAKE2B_IV[i - 8]]

\* mixing number `step` (from 0) of the compression: round step / 8
CompressG(v, m, step) ==
  LET s == SIGMA[((step \div 8) % 10) + 1]
      g == (step % 8) + 1
      lanes == G_LANES[g]
  IN MixG(v, lanes[1], lanes[2], lanes[3], lanes[4],
          m[s[2 * g - 1]], m[s[2 * g]])

\* finalize: the first len bytes of the chaining value
Finalize(h, v, len) ==
  LET hh == [i \in 1..8 |-> Xor64(Xor64(h[i], v[i]), v[i + 8])]
      bytes == WriteU64LE(hh[1]) \o WriteU64LE(hh[2]) \o WriteU64LE(hh[3])
               \o WriteU64LE(hh[4]) \o WriteU64LE(hh[5]) \o WriteU64LE(hh[6])
               \o WriteU64LE(hh[7]) \o WriteU64LE(hh[8])
  IN SubSeq(bytes, 1, len)

(***************************************************************************)
(* byte_slice.rs: a destination is `cnt` elements of an integer type.      *)
(* After a fill, an element's value is the sequence of the positions of    *)
(* the digest bytes it is made of, least significant byte first.           *)
(***************************************************************************)
SizeOf(ty) ==
  CASE ty \in {"u8", "i8"} -> 1
    [] ty \in {"u16", "i16"} -> 2
    [] ty \in {"u32", "i32"} -> 4
    [] ty \in {"u64", "i64"} -> 8
    [] ty \in {"u128", "i128"} -> 16

Shape(ty, cnt) == [ty |-> ty, cnt |-> cnt]

\* the element count taken for the byte length
AsByteSliceLenInElements(shape) == shape.cnt

AsByteSliceLen(shape) ==
  IF shape.ty = "u8" THEN shape.cnt
  ELSE IF shape.cnt = 0 THEN 0
  ELSE shape.cnt * SizeOf(shape.ty)

Reverse(s) == [i \in 1..Len(s) |-> s[Len(s) + 1 - i]]

\* the value the platform reads from memory bytes first..first+w-1
NativeRead(first, w, big) ==
  LET mem == [i \in 1..w |-> first + i - 1]
  IN IF big THEN Reverse(mem) ELSE mem

\* to_le that never swaps
ToLeNoSwap(value, big) == value

\* integer::to_le: the identity on a little-endian target, swap_bytes on a
\* big-endian one
ToLe(value, big) == IF big THEN Reverse(value) ELSE value

ConvertToLe(shape, elems, big) ==
  IF shape.ty = "u8" THEN elems
  ELSE [j \in 1..Len(elems) |-> ToLe(elems[j], big)]

\* the elements of a destination whose memory holds the digest bytes
Elements(shape, big) ==
  [j \in 1..shape.cnt |-> NativeRead((j - 1) * SizeOf(shape.ty) + 1,
                                     SizeOf(shape.ty), big)]

(***************************************************************************)
(* lib.rs: FillError and the fill family, as functions of the seed.        *)
(* A message is the sequence of its pieces (the back quotes around         *)
(* SecretTree in the panic messages are left out).                         *)
(***************************************************************************)
FillErrorDisplay(err) ==
  IF err.variant = "BufferTooSmall"
  THEN << "supplied buffer (", ToString(err.size),
          " bytes) is too small to be filled; min supported size is ",
          ToString(err.bound), " bytes" >>
  ELSE << "supplied buffer (", ToString(err.size),
          " bytes) is too large to be filled; max supported size is ",
          ToString(err.bound), " bytes" >>

TryFill(seed, shape, big) ==
  LET r == TryDeriveKey(AsByteSliceLen(shape), IndexNone, FILL_BYTES_CONTEXT,
                        seed)
  IN IF r.ok
     THEN [kind |-> "ok",
           data |-> [src |-> r.out,
                     elems |-> ConvertToLe(shape, Elements(shape, big), big)]]
     ELSE IF "err" \in DOMAIN r THEN [kind |-> "err", err |-> r.err]
     ELSE [kind |-> "panic", msg |-> << r.msg >>]

\* fill on top of derive_key, whose assertion names no size
FillViaDeriveKey(seed, shape, big) ==
  LET r == DeriveKey(AsByteSliceLen(shape), IndexNone, FILL_BYTES_CONTEXT,
                     seed)
  IN IF r.panic THEN [kind |-> "panic", msg |-> << r.msg >>]
     ELSE [kind |-> "ok",
           data |-> [src |-> r.out,
                     elems |-> ConvertToLe(shape, Elements(shape, big), big)]]

Fill(seed, shape, big) ==
  LET r == TryFill(seed, shape, big)
  IN IF r.kind = "err"
     THEN [kind |-> "panic",
           msg |-> << "Failed filling a buffer from SecretTree: " >>
                   \o FillErrorDisplay(r.err)]
     ELSE r

TryCreateSecret(seed, shape, big) == TryFill(seed, shape, big)

CreateSecret(seed, shape, big) ==
  LET r == TryCreateSecret(seed, shape, big)
  IN IF r.kind = "err"
     THEN [kind |-> "panic",
           msg |-> << "Failed creating a secret from SecretTree: " >>
                   \o FillErrorDisplay(r.err)]
     ELSE r

\* a generator seeded with 8 bytes, as seed_from_u64 takes
RngOfShortSeed(seed) ==
  LET r == DeriveKey(CONTEXT_LEN, IndexNone, RNG_CONTEXT, seed)
  IN IF r.panic THEN [kind |-> "panic", msg |-> << r.msg >>]
     ELSE [kind |-> "ok", data |-> [src |-> r.out, elems |-> << >>]]

RngOf(seed) ==
  LET r == DeriveKey(SEED_LEN, IndexNone, RNG_CONTEXT, seed)
  IN IF r.panic THEN [kind |-> "panic", msg |-> << r.msg >>]
     ELSE [kind |-> "ok", data |-> [src |-> r.out, elems |-> << >>]]

(***************************************************************************)
(* lib.rs: Name and the seeds of the children.                             *)
(***************************************************************************)
NameNew(s) ==
  IF ~(Len(s) <= SALT_LEN)
  THEN [panic |-> TRUE, msg |-> "name is too long (should be <=16 bytes)"]
  ELSE IF \E i \in 1..Len(s) : s[i] = 0
  THEN [panic |-> TRUE, msg |-> "name contains a null char"]
  ELSE [panic |-> FALSE, name |-> Pad(s, SALT_LEN)]

\* the seed of a named child derived with no salt
ChildSeedUnsalted(seed, name) ==
  DeriveKey(SEED_LEN, IndexNone, NAME_CONTEXT, seed)

ChildSeed(seed, name) ==
  DeriveKey(SEED_LEN, IndexBytes(name), NAME_CONTEXT, seed)

\* the seed of an indexed child asked for at the largest length
IndexSeedLong(seed, index) ==
  DeriveKey(MAX_OUTPUT_LEN, IndexNumber(index), INDEX_CONTEXT, seed)

IndexSeed(seed, index) ==
  DeriveKey(SEED_LEN, IndexNumber(index), INDEX_CONTEXT, seed)

IntermediateSeed(seed, digest) ==
  DeriveKey(SEED_LEN, IndexBytes(SubSeq(digest, 1, SALT_LEN)),
            DIGEST_START_CONTEXT, seed)

\* one derivation, salted with the first half of the digest
DigestSeedOneStage(seed, digest) ==
  DeriveKey(SEED_LEN, IndexBytes(SubSeq(digest, 1, SALT_LEN)),
            DIGEST_START_CONTEXT, seed)

\* both derivations keyed by the seed of the parent
DigestSeedParentKeyed(seed, digest) ==
  LET first == IntermediateSeed(seed, digest)
  IN IF first.panic THEN first
     ELSE DeriveKey(SEED_LEN,
                    IndexBytes(SubSeq(digest, SALT_LEN + 1, 2 * SALT_LEN)),
                    DIGEST_END_CONTEXT, seed)

DigestSeed(seed, digest) ==
  LET first == IntermediateSeed(seed, digest)
  IN IF first.panic THEN first
     ELSE DeriveKey(SEED_LEN,
                    IndexBytes(SubSeq(digest, SALT_LEN + 1, 2 * SALT_LEN)),
                    DIGEST_END_CONTEXT, first.out)

\* the length checked after the null chars
FromStrNullFirst(s) ==
  IF \E i \in 1..Len(s) : s[i] = 0 THEN [ok |-> FALSE, err |-> "NullChar"]
  ELSE IF Len(s) > SALT_LEN THEN [ok |-> FALSE, err |-> "TooLong"]
  ELSE [ok |-> TRUE, name |-> [i \in 1..SALT_LEN |->
                                 IF i <= Len(s) THEN s[i] ELSE 0]]

\* <Name as FromStr>::from_str
FromStr(s) ==
  IF Len(s) > SALT_LEN THEN [ok |-> FALSE, err |-> "TooLong"]
  ELSE IF \E i \in 1..Len(s) : s[i] = 0 THEN [ok |-> FALSE, err |-> "NullChar"]
  ELSE [ok |-> TRUE, name |-> [i \in 1..SALT_LEN |->
                                 IF i <= Len(s) THEN s[i] ELSE 0]]

\* all 16 bytes handed back, padding included
AsRefWhole(name) == name

\* <Name as AsRef<str>>::as_ref: the bytes before the first zero byte
AsRef(name) ==
  LET zeros == { i \in 1..SALT_LEN : name[i] = 0 }
      str_len == IF zeros = {} THEN SALT_LEN
                 ELSE (CHOOSE i \in zeros : \A k \in zeros : i <= k) - 1
  IN SubSeq(name, 1, str_len)

(***************************************************************************)
(* Ownership.  Seed is Secret<[u8; 32]>: dropping it overwrites the bytes  *)
(* with zeros.  A method taking `self` moves the tree in and drops it on   *)
(* every return path; a method taking `&self` leaves it as it is.          *)
(***************************************************************************)
\* a seed kept in a plain array: dropping it leaves the bytes in place
PlainDrop(seed) == seed

SecretDrop(seed) == Raw(Zeros(SEED_LEN))

\* a consuming method declared with `&self`
ConsumeSelfAsBorrow(t) == t

ConsumeSelf(t) == [t EXCEPT !.status = "gone", !.seed = SecretDrop(t.seed)]

\* a branching method declared with `self`
BorrowSelfAsMove(t) == [t EXCEPT !.status = "gone", !.seed = Raw(Zeros(SEED_LEN))]

BorrowSelf(t) == t

DropTree(t) == [t EXCEPT !.status = "gone", !.seed = SecretDrop(t.seed)]

(***************************************************************************)
(* State.  Besides status and seed a slot carries history: `made` (the     *)
(* seed it was constructed with), `root` and `path` (the seed of the root  *)
(* it descends from and the steps that lead to it), `parent` (the slot it  *)
(* was derived from, 0 for none), `nterm` (how many consuming operations   *)
(* were called on it, counted up to 2), `outcome` (what the last such      *)
(* operation returned) and `tmp` (for a tree made by digest: what the      *)
(* storage of the intermediate seed holds once digest has returned).       *)
(***************************************************************************)
Largest(S) == CHOOSE n \in S : \A m \in S : m <= n

Slots == 1..Largest({MaxTrees, MaxPathTrees, MaxFillTrees})

NoBytes == Raw(<< >>)

NoOutcome == [op |-> "none"]

\* `call`: the last call of a function of kdf.rs or of Name made on its own,
\* with its arguments and what it returned
NoCall == [op |-> "none"]

FreeSlot == [status |-> "free", seed |-> NoBytes, made |-> NoBytes,
             root |-> NoBytes, path |-> << >>, parent |-> 0, nterm |-> 0,
             outcome |-> NoOutcome, tmp |-> NoBytes]

NewTree(seed, root, path, parent) ==
  [status |-> "live", seed |-> seed, made |-> seed, root |-> root,
   path |-> path, parent |-> parent, nterm |-> 0, outcome |-> NoOutcome,
   tmp |-> NoBytes]

EmptyStore == [bytes |-> NoBytes, root |-> NoBytes, path |-> << >>, from |-> 0]

Live(i) == trees[i].status = "live"

\* fewer than `cap` instances were made so far (slots are taken in order)
Room(cap) == trees[cap].status = "free"

HasFree == \E j \in Slots : trees[j].status = "free"

NextFree == CHOOSE j \in Slots :
              /\ trees[j].status = "free"
              /\ \A k \in Slots : trees[k].status = "free" => j <= k

Step(op, arg) == << op, arg >>

TypeOK ==
  /\ DOMAIN trees = Slots
  /\ \A i \in Slots : trees[i].status \in {"free", "live", "gone"}
  /\ bigEndian \in BOOLEAN
  /\ fromSliceErr \in BOOLEAN

Init ==
  /\ trees = [i \in Slots |-> FreeSlot]
  /\ store = EmptyStore
  /\ bigEndian = FALSE
  /\ fromSliceErr = FALSE
  /\ aborted = << >>
  /\ call = NoCall

\* the crate built for either byte order
InitAnyTarget ==
  /\ trees = [i \in Slots |-> FreeSlot]
  /\ store = EmptyStore
  /\ bigEndian \in BOOLEAN
  /\ fromSliceErr = FALSE
  /\ aborted = << >>
  /\ call = NoCall

(***************************************************************************)
(* Constructors and the read of the seed.                                  *)
(***************************************************************************)
\* SecretTree::new: the seed is whatever the generator yields
New(seed) ==
  /\ HasFree
  /\ trees' = [trees EXCEPT ![NextFree] = NewTree(seed, seed, << >>, 0)]
  /\ UNCHANGED <<store, bigEndian, fromSliceErr, aborted, call>>

FromSeed(seed) ==
  /\ HasFree
  /\ trees' = [trees EXCEPT ![NextFree] = NewTree(seed, seed, << >>, 0)]
  /\ UNCHANGED <<store, bigEndian, fromSliceErr, aborted, call>>

\* the length checked, the bytes never copied
TryInto32NoCopy(bytes) ==
  IF ByteLen(bytes) = SEED_LEN THEN [ok |-> TRUE, seed |-> Raw(Zeros(SEED_LEN))]
  ELSE [ok |-> FALSE]

\* the first 32 bytes of any slice that has them
TryInto32Prefix(bytes) ==
  IF ByteLen(bytes) >= SEED_LEN
  THEN [ok |-> TRUE, seed |-> Raw(SubSeq(bytes.bytes, 1, SEED_LEN))]
  ELSE [ok |-> FALSE]

\* <[u8; 32]>::try_from(&[u8]): a copy when the length is 32
TryInto32(bytes) ==
  IF ByteLen(bytes) = SEED_LEN THEN [ok |-> TRUE, seed |-> bytes]
  ELSE [ok |-> FALSE]

\* from_slice on caller-supplied bytes
FromSlice(bytes) ==
  LET r == TryInto32(bytes)
  IN /\ HasFree
     /\ IF r.ok
        THEN /\ trees' = [trees EXCEPT
                            ![NextFree] = NewTree(r.seed, r.seed, << >>, 0)]
             /\ fromSliceErr' = FALSE
        ELSE /\ fromSliceErr' = TRUE
             /\ UNCHANGED trees
     /\ call' = [op |-> "from_slice", arg |-> bytes]
     /\ UNCHANGED <<store, bigEndian, aborted>>

\* seed(): the bytes are exposed and the caller persists them
SeedOp(i) ==
  /\ Live(i)
  /\ store' = [bytes |-> trees[i].seed, root |-> trees[i].root,
               path |-> trees[i].path, from |-> i]
  /\ trees' = [trees EXCEPT ![i] = BorrowSelf(@)]
  /\ UNCHANGED <<bigEndian, fromSliceErr, aborted, call>>

\* from_slice on the persisted bytes
Restore ==
  LET r == TryInto32(store.bytes)
  IN /\ store.from # 0
     /\ HasFree
     /\ IF r.ok
        THEN /\ trees' = [trees EXCEPT
                            ![NextFree] =
                              NewTree(r.seed, store.root,
                                      Append(store.path,
                                             Step("restore", << >>)), 0)]
             /\ fromSliceErr' = FALSE
        ELSE /\ fromSliceErr' = TRUE
             /\ UNCHANGED trees
     /\ UNCHANGED <<store, bigEndian, aborted, call>>

\* from_seed on a clone of the persisted seed
Reseed ==
  /\ store.from # 0
  /\ HasFree
  /\ trees' = [trees EXCEPT
                 ![NextFree] =
                   NewTree(store.bytes, store.root,
                           Append(store.path, Step("restore", << >>)), 0)]
  /\ UNCHANGED <<store, bigEndian, fromSliceErr, aborted, call>>

(***************************************************************************)
(* Branching: child, index, digest.                                        *)
(***************************************************************************)
Branch(i, r, step, tmp) ==
  /\ IF r.panic
     THEN /\ aborted' = << r.msg >>
          /\ trees' = [trees EXCEPT ![i] = BorrowSelf(@)]
     ELSE /\ trees' = [trees EXCEPT
                         ![i] = BorrowSelf(@),
                         ![NextFree] =
                           [NewTree(r.out, trees[i].root,
                                    Append(trees[i].path, step), i)
                              EXCEPT !.tmp = tmp]]
          /\ UNCHANGED aborted
  /\ UNCHANGED <<store, bigEndian, fromSliceErr, call>>

\* children numbered in the order they are made, whatever their name
ChildNumbered(i, name) ==
  /\ Live(i)
  /\ HasFree
  /\ Branch(i, IndexSeed(trees[i].seed, NextFree), Step("child", name), NoBytes)

Child(i, name) ==
  /\ Live(i)
  /\ HasFree
  /\ Branch(i, ChildSeed(trees[i].seed, name), Step("child", name), NoBytes)

Index(i, index) ==
  /\ Live(i)
  /\ HasFree
  /\ Branch(i, IndexSeed(trees[i].seed, index), Step("index", U64(index)),
            NoBytes)

\* the intermediate seed is a Secret of its own, dropped when digest returns
Digest(i, digest) ==
  /\ Live(i)
  /\ HasFree
  /\ LET first == IntermediateSeed(trees[i].seed, digest)
     IN Branch(i, DigestSeed(trees[i].seed, digest), Step("digest", digest),
               IF first.panic THEN NoBytes ELSE SecretDrop(first.out))

(***************************************************************************)
(* Consuming operations and drop.                                          *)
(***************************************************************************)
Terminal(i, outcome) ==
  /\ trees' = [trees EXCEPT
                 ![i] = [ConsumeSelf(@) EXCEPT
                           !.nterm = IF @ < 2 THEN @ + 1 ELSE 2,
                           !.outcome = outcome]]
  /\ UNCHANGED <<store, bigEndian, fromSliceErr, aborted, call>>

\* rng declared with `&self`
RngBorrowing(i) ==
  /\ Live(i)
  /\ trees' = [trees EXCEPT
                 ![i] = [@ EXCEPT
                           !.nterm = IF @ < 2 THEN @ + 1 ELSE 2,
                           !.outcome = [op |-> "rng",
                                        ret |-> RngOf(trees[i].seed)]]]
  /\ UNCHANGED <<store, bigEndian, fromSliceErr, aborted, call>>

Rng(i) ==
  /\ Live(i)
  /\ Terminal(i, [op |-> "rng", ret |-> RngOf(trees[i].seed)])

TryFillOp(i, shape) ==
  /\ Live(i)
  /\ Terminal(i, [op |-> "try_fill", shape |-> shape,
                  ret |-> TryFill(trees[i].seed, shape, bigEndian)])

FillOp(i, shape) ==
  /\ Live(i)
  /\ Terminal(i, [op |-> "fill", shape |-> shape,
                  ret |-> Fill(trees[i].seed, shape, bigEndian)])

TryCreateSecretOp(i, shape) ==
  /\ Live(i)
  /\ Terminal(i, [op |-> "try_create_secret", shape |-> shape,
                  ret |-> TryCreateSecret(trees[i].seed, shape, bigEndian)])

CreateSecretOp(i, shape) ==
  /\ Live(i)
  /\ Terminal(i, [op |-> "create_secret", shape |-> shape,
                  ret |-> CreateSecret(trees[i].seed, shape, bigEndian)])

DropOp(i) ==
  /\ Live(i)
  /\ trees' = [trees EXCEPT ![i] = DropTree(@)]
  /\ UNCHANGED <<store, bigEndian, fromSliceErr, aborted, call>>

(***************************************************************************)
(* Name on its own: the two constructors and the way back to the string.   *)
(***************************************************************************)
NameNewCall(s) ==
  /\ call' = [op |-> "Name::new", arg |-> s, ret |-> NameNew(s)]
  /\ UNCHANGED <<trees, store, bigEndian, fromSliceErr, aborted>>

FromStrCall(s) ==
  /\ call' = [op |-> "from_str", arg |-> s, ret |-> FromStr(s)]
  /\ UNCHANGED <<trees, store, bigEndian, fromSliceErr, aborted>>

\* Name::new(s).as_ref()
AsRefCall(s) ==
  LET made == NameNew(s)
  IN /\ ~made.panic
     /\ call' = [op |-> "as_ref", arg |-> s, name |-> made.name,
                 ret |-> AsRef(made.name)]
     /\ UNCHANGED <<trees, store, bigEndian, fromSliceErr, aborted>>

(***************************************************************************)
(* derive_key on its own, the digest worked out mixing by mixing.          *)
(***************************************************************************)
DeriveKeyCall(len, index, context, key) ==
  LET r == DeriveKey(len, index, context, key)
  IN /\ call' =
          IF r.panic
          THEN [op |-> "derive_key", len |-> len, index |-> index,
                context |-> context, key |-> key, panic |-> TRUE]
          ELSE [op |-> "derive_key", len |-> len, index |-> index,
                context |-> context, key |-> key, panic |-> FALSE,
                digest |-> r.out, stage |-> "params"]
     /\ UNCHANGED <<trees, store, bigEndian, fromSliceErr, aborted>>

\* Blake2b::with_parameter_block(&params) and the two updates
UpdateStep ==
  /\ call.op = "derive_key"
  /\ ~call.panic
  /\ call.stage = "params"
  /\ LET h == InitialState(call.digest.params)
         msg == KeyMessage(call.digest)
     IN call' = [op |-> "derive_key", len |-> call.len, index |-> call.index,
                 context |-> call.context, key |-> call.key, panic |-> FALSE,
                 digest |-> call.digest, stage |-> "compress", h |-> h,
                 m |-> MessageWords(msg), v |-> WorkVector(h, Len(msg)),
                 step |-> 0]
  /\ UNCHANGED <<trees, store, bigEndian, fromSliceErr, aborted>>

CompressStep ==
  /\ call.op = "derive_key"
  /\ ~call.panic
  /\ call.stage = "compress"
  /\ call.step < 8 * BLAKE2B_ROUNDS
  /\ call' = [call EXCEPT !.v = CompressG(call.v, call.m, call.step),
                          !.step = @ + 1]
  /\ UNCHANGED <<trees, store, bigEndian, fromSliceErr, aborted>>

\* output.copy_from_slice(digest.as_bytes())
FinalizeStep ==
  /\ call.op = "derive_key"
  /\ ~call.panic
  /\ call.stage = "compress"
  /\ call.step = 8 * BLAKE2B_ROUNDS
  /\ call' = [op |-> "derived", len |-> call.len, index |-> call.index,
              context |-> call.context, key |-> call.key,
              out |-> Finalize(call.h, call.v, call.digest.len)]
  /\ UNCHANGED <<trees, store, bigEndian, fromSliceErr, aborted>>

(***************************************************************************)
(* The bytes two fills wrote, worked out side by side: the buffers of the  *)
(* test buffers_with_different_size_should_be_unrelated.                   *)
(***************************************************************************)
\* the hash of one buffer, at the start of its last block
BufferLane(digest) ==
  LET h == InitialState(digest.params)
      msg == KeyMessage(digest)
  IN [digest |-> digest, h |-> h, m |-> MessageWords(msg),
      v |-> WorkVector(h, Len(msg))]

\* instances i and j were made from the same seed on the same path and each
\* filled a buffer; one comparison is made at a time
BuffersStart(i, j) ==
  /\ call.op # "buffers"
  /\ i # j
  /\ trees[i].outcome.op = "fill"
  /\ trees[j].outcome.op = "fill"
  /\ trees[i].outcome.ret.kind = "ok"
  /\ trees[j].outcome.ret.kind = "ok"
  /\ trees[i].root = trees[j].root
  /\ trees[i].path = trees[j].path
  /\ trees[i].made.kind = "raw"
  /\ trees[j].made.kind = "raw"
  /\ call' = [op |-> "buffers", a |-> i, b |-> j,
              lanes |-> << BufferLane(trees[i].outcome.ret.data.src),
                           BufferLane(trees[j].outcome.ret.data.src) >>,
              step |-> 0]
  /\ UNCHANGED <<trees, store, bigEndian, fromSliceErr, aborted>>

BuffersCompress ==
  /\ call.op = "buffers"
  /\ call.step < 8 * BLAKE2B_ROUNDS
  /\ call' = [call EXCEPT
                !.lanes = [k \in 1..2 |->
                             [call.lanes[k] EXCEPT
                                !.v = CompressG(call.lanes[k].v,
                                                call.lanes[k].m, call.step)]],
                !.step = @ + 1]
  /\ UNCHANGED <<trees, store, bigEndian, fromSliceErr, aborted>>

\* output.copy_from_slice(digest.as_bytes()), for either buffer
BuffersFinalize ==
  /\ call.op = "buffers"
  /\ call.step = 8 * BLAKE2B_ROUNDS
  /\ call' = [op |-> "buffers_done", a |-> call.a, b |-> call.b,
              bytes |-> [k \in 1..2 |->
                           Finalize(call.lanes[k].h, call.lanes[k].v,
                                    call.lanes[k].digest.len)]]
  /\ UNCHANGED <<trees, store, bigEndian, fromSliceErr, aborted>>

(***************************************************************************)
(* Inputs.                                                                 *)
(***************************************************************************)
RootSeeds == { Raw([i \in 1..SEED_LEN |-> 7]),
               Raw([i \in 1..SEED_LEN |-> i - 1]) }

\* "", "A" and "foo"
NameStrings == { << >>, << 65 >>, << 102, 111, 111 >> }

Names == { NameNew(str).name : str \in NameStrings }

NameA == NameNew(<< 65 >>).name

\* 0, 0x41 and 0x6f6f66: the little-endian numbers of "", "A" and "foo"
Indices == { 0, 65, 7303014 }

FlipBit(digest, pos) ==
  LET bit == 2 ^ (pos % 8)
  IN [digest EXCEPT ![(pos \div 8) + 1] =
        IF (@ \div bit) % 2 = 0 THEN @ + bit ELSE @ - bit]

BaseDigest == [i \in 1..(2 * SALT_LEN) |-> (37 * i) % 256]

Digests == { BaseDigest, FlipBit(BaseDigest, 3), FlipBit(BaseDigest, 250) }

U8x32 == Shape("u8", 32)

U8x12 == Shape("u8", 12)

\* slices and arrays handed to fill / try_fill; the byte lengths are
\* 0, 0, 12, 15, 16, 16, 40, 64, 65, 80
FillShapes == { Shape("u8", 0), Shape("u64", 0), U8x12, Shape("i8", 15),
                Shape("u8", 16), Shape("u128", 1), Shape("u8", 40),
                Shape("i32", 16), Shape("u8", 65), Shape("u64", 10) }

\* types T of create_secret::<T> / try_create_secret::<T>; the sizes are
\* 8, 12, 16, 32, 64, 80
SecretTypes == { Shape("u64", 1), U8x12, Shape("u128", 1), Shape("u16", 16),
                 Shape("u64", 8), Shape("u64", 10) }

\* strings of up to MaxNameInput bytes: all "A", or "A" with one byte
\* replaced by a null char, by "B" or by a byte of a multi-byte character
NameInputs ==
  { [i \in 1..n |-> IF i = k THEN b ELSE 65] :
      n \in 0..MaxNameInput, k \in 0..MaxNameInput, b \in {0, 66, 200} }

\* slices of 0..MaxSliceLen bytes, two of each length
SliceInputs ==
  { Raw([i \in 1..n |-> (b * i) % 256]) : n \in 0..MaxSliceLen, b \in {1, 7} }

\* the inputs of the tests of kdf.rs: the key 0, 1, ..., 31, the context
\* "KDF test", 64 bytes for the indices 0..9 and L bytes for the index L
TEST_KEY == Raw([i \in 1..SEED_LEN |-> i - 1])

TEST_CTX == << 75, 68, 70, 32, 116, 101, 115, 116 >>

ReferenceInputs ==
  { << 64, i >> : i \in 0..9 } \cup { << 4 * k, 4 * k >> : k \in 4..10 }

\* the expected outputs of sodium_test_vectors_64byte_output, for the
\* indices 0..9
EXP_64 ==
  << << 160, 199, 36, 64, 71, 40, 200, 187, 149, 229, 67, 62, 182, 169, 113, 97,
        113, 20, 77, 97, 239, 178, 62, 116, 184, 115, 252, 190, 218, 81, 216, 7,
        27, 93, 112, 170, 225, 32, 102, 223, 201, 76, 233, 67, 241, 69, 170, 23,
        108, 5, 80, 64, 195, 221, 115, 176, 161, 94, 54, 37, 77, 69, 6, 20 >>,
     << 2, 80, 127, 20, 79, 169, 191, 25, 1, 11, 247, 199, 11, 35, 91, 76,
        38, 99, 204, 0, 224, 116, 249, 41, 96, 42, 94, 44, 16, 167, 128, 117,
        125, 42, 57, 147, 208, 109, 235, 195, 120, 169, 14, 253, 172, 25, 109, 216,
        65, 129, 123, 151, 125, 103, 183, 134, 128, 79, 109, 60, 213, 133, 186, 181 >>,
     << 25, 68, 218, 97, 255, 24, 220, 32, 40, 195, 87, 138, 200, 91, 233, 4,
        147, 27, 131, 134, 8, 150, 89, 143, 98, 70, 143, 28, 181, 71, 28, 106,
        52, 76, 148, 93, 188, 98, 201, 170, 247, 15, 235, 98, 71, 45, 23, 119,
        94, 165, 219, 110, 213, 73, 76, 104, 183, 169, 165, 151, 97, 243, 150, 20 >>,
     << 19, 28, 12, 161, 99, 62, 208, 116, 152, 98, 21, 178, 100, 246, 224, 71,
        79, 54, 44, 82, 176, 41, 239, 252, 123, 15, 117, 151, 126, 232, 156, 201,
        93, 133, 195, 219, 135, 247, 227, 153, 25, 122, 37, 65, 21, 146, 190, 238,
        183, 229, 18, 138, 116, 100, 106, 70, 14, 205, 109, 235, 73, 148, 183, 30 >>,
     << 167, 2, 58, 11, 249, 190, 36, 93, 7, 138, 237, 38, 188, 222, 4, 101,
        255, 12, 192, 150, 17, 150, 165, 72, 42, 15, 244, 255, 139, 64, 21, 151,
        30, 19, 97, 31, 80, 82, 156, 180, 8, 245, 119, 107, 20, 169, 14, 124,
        61, 217, 22, 10, 34, 33, 29, 182, 79, 244, 181, 192, 185, 149, 54, 128 >>,
     << 80, 244, 147, 19, 243, 160, 91, 46, 86, 92, 19, 254, 237, 180, 77, 170,
        103, 92, 175, 212, 44, 43, 44, 249, 237, 188, 233, 201, 73, 251, 252, 63,
        23, 93, 203, 115, 134, 113, 80, 154, 226, 234, 102, 251, 133, 229, 82, 57,
        77, 71, 154, 250, 127, 163, 175, 254, 135, 145, 116, 71, 150, 185, 65, 118 >>,
     << 19, 181, 141, 109, 105, 120, 0, 137, 41, 56, 98, 205, 89, 161, 168, 164,
        239, 121, 187, 133, 14, 63, 59, 164, 31, 178, 36, 70, 167, 221, 29, 196,
        218, 70, 103, 211, 123, 51, 191, 18, 37, 220, 248, 23, 60, 76, 52, 154,
        93, 145, 28, 91, 210, 219, 156, 89, 5, 237, 112, 193, 30, 128, 158, 59 >>,
     << 21, 212, 75, 75, 68, 255, 160, 6, 238, 206, 235, 80, 140, 152, 169, 112,
        170, 165, 115, 214, 89, 5, 104, 123, 158, 21, 133, 77, 236, 109, 73, 198,
        18, 117, 126, 20, 159, 120, 38, 143, 114, 118, 96, 222, 223, 154, 188, 226,
        42, 150, 145, 254, 178, 10, 1, 176, 82, 95, 75, 71, 163, 207, 25, 219 >>,
     << 154, 235, 186, 17, 197, 66, 138, 232, 34, 87, 22, 54, 158, 48, 164, 137,
        67, 190, 57, 21, 154, 137, 159, 128, 78, 153, 99, 239, 120, 130, 46, 24,
        108, 33, 254, 149, 187, 11, 133, 230, 14, 240, 58, 111, 88, 208, 185, 208,
        110, 145, 247, 157, 10, 185, 152, 69, 11, 136, 16, 199, 60, 169, 53, 180 >>,
     << 112, 249, 184, 62, 70, 63, 180, 65, 231, 164, 196, 50, 117, 18, 92, 213,
        177, 157, 142, 46, 74, 93, 23, 154, 57, 245, 219, 16, 187, 206, 116, 90,
        25, 145, 4, 86, 61, 48, 140, 248, 212, 198, 178, 123, 187, 117, 157, 237,
        35, 47, 91, 219, 124, 54, 125, 214, 50, 169, 103, 115, 32, 223, 228, 22 >> >>

\* the expected outputs of sodium_test_vectors_varying_len_output, of
\* 16, 20, ..., 40 bytes
EXP_VARYING ==
  << << 165, 41, 33, 102, 36, 239, 145, 97, 228, 207, 17, 114, 114, 170, 255, 242 >>,
     << 38, 130, 20, 220, 148, 119, 162, 227, 193, 2, 40, 41, 249, 52, 171, 153,
        42, 90, 61, 132 >>,
     << 148, 214, 120, 113, 118, 37, 224, 17, 153, 92, 115, 85, 242, 9, 34, 103,
        222, 228, 123, 240, 114, 45, 211, 128 >>,
     << 34, 193, 52, 185, 214, 100, 225, 189, 177, 77, 195, 9, 169, 54, 191, 21,
        18, 177, 158, 79, 81, 117, 100, 46, 251, 26, 13, 247 >>,
     << 21, 75, 41, 31, 17, 25, 103, 55, 248, 183, 244, 145, 228, 202, 17, 118,
        78, 2, 39, 211, 79, 148, 41, 84, 8, 168, 105, 240, 7, 170, 134, 24 >>,
     << 32, 121, 2, 144, 52, 123, 155, 15, 65, 58, 149, 79, 64, 229, 46, 39,
        11, 59, 69, 65, 126, 150, 200, 115, 49, 97, 103, 33, 136, 112, 28, 8,
        221, 118, 204, 61 >>,
     << 102, 239, 165, 223, 227, 239, 212, 204, 140, 162, 95, 45, 98, 44, 151, 162,
        10, 25, 45, 122, 221, 150, 95, 38, 176, 2, 183, 235, 129, 170, 228, 32,
        60, 14, 95, 7, 253, 148, 88, 69 >> >>

\* inputs of derive_key: every length from 15 to 65, every variant of the
\* index, two contexts
ParamLens == (MIN_OUTPUT_LEN - 1)..(MAX_OUTPUT_LEN + 1)

ParamIndices ==
  { IndexNone }
    \cup { IndexNumber(n) : n \in {0, 65, 258, 16909060, 2147483647} }
    \cup { IndexBytes([i \in 1..SALT_LEN |-> i]),
           IndexBytes([i \in 1..SALT_LEN |-> 256 - i]) }

ParamContexts == { TEST_CTX, [i \in 1..CONTEXT_LEN |-> 256 - i] }

\* destinations of 16 to 64 bytes of every element type
EndianShapes ==
  { Shape("u8", 16), Shape("i8", 16), Shape("u16", 8), Shape("i16", 12),
    Shape("u32", 4), Shape("i32", 16), Shape("u64", 2), Shape("i64", 5),
    Shape("u128", 1), Shape("i128", 4) }

\* the seed of the instances whose buffers are compared
SizeSeeds == { Raw([i \in 1..SEED_LEN |-> i - 1]) }

\* destinations of 16, 24, 32 and 64 bytes
SizeShapes == { Shape("u8", 16), Shape("u16", 12), U8x32, Shape("u64", 8) }

(***************************************************************************)
(* Spec: every operation, at most MaxTrees instances, a little-endian      *)
(* target.                                                                 *)
(***************************************************************************)
Next ==
  \/ \E seed \in RootSeeds : Room(MaxTrees) /\ New(seed)
  \/ \E seed \in RootSeeds : Room(MaxTrees) /\ FromSeed(seed)
  \/ \E i \in Slots : SeedOp(i)
  \/ Room(MaxTrees) /\ Restore
  \/ Room(MaxTrees) /\ Reseed
  \/ \E i \in Slots : Room(MaxTrees) /\ Child(i, NameA)
  \/ \E i \in Slots : Room(MaxTrees) /\ Index(i, 65)
  \/ \E i \in Slots : Room(MaxTrees) /\ Digest(i, BaseDigest)
  \/ \E i \in Slots : Rng(i)
  \/ \E i \in Slots : TryFillOp(i, U8x12)
  \/ \E i \in Slots : FillOp(i, U8x32)
  \/ \E i \in Slots : TryCreateSecretOp(i, U8x32)
  \/ \E i \in Slots : CreateSecretOp(i, U8x12)
  \/ \E i \in Slots : DropOp(i)

Spec == Init /\ [][Next]_vars

(***************************************************************************)
(* SpecPaths: construction, persistence, branching and fill, at most       *)
(* MaxPathTrees instances.                                                 *)
(***************************************************************************)
NextPaths ==
  \/ \E seed \in RootSeeds : Room(MaxPathTrees) /\ FromSeed(seed)
  \/ \E i \in Slots : SeedOp(i)
  \/ Room(MaxPathTrees) /\ Restore
  \/ Room(MaxPathTrees) /\ Reseed
  \/ \E i \in Slots : Room(MaxPathTrees) /\ Child(i, NameA)
  \/ \E i \in Slots : Room(MaxPathTrees) /\ Index(i, 65)
  \/ \E i \in Slots : Room(MaxPathTrees) /\ Digest(i, BaseDigest)
  \/ \E i \in Slots : FillOp(i, U8x32)

SpecPaths == Init /\ [][NextPaths]_vars

(***************************************************************************)
(* SpecBranch: construction and branching over every name, index and       *)
(* digest of the input sets, at most MaxTrees instances.                   *)
(***************************************************************************)
NextBranch ==
  \/ \E seed \in RootSeeds : Room(MaxTrees) /\ FromSeed(seed)
  \/ \E i \in Slots, name \in Names : Room(MaxTrees) /\ Child(i, name)
  \/ \E i \in Slots, index \in Indices : Room(MaxTrees) /\ Index(i, index)
  \/ \E i \in Slots, digest \in Digests : Room(MaxTrees) /\ Digest(i, digest)

SpecBranch == Init /\ [][NextBranch]_vars

(***************************************************************************)
(* SpecDigest: construction, named children and children by digest, at     *)
(* most MaxTrees instances.                                                *)
(***************************************************************************)
NextDigest ==
  \/ \E seed \in RootSeeds : Room(MaxTrees) /\ FromSeed(seed)
  \/ \E i \in Slots : Room(MaxTrees) /\ Child(i, NameA)
  \/ \E i \in Slots, digest \in Digests : Room(MaxTrees) /\ Digest(i, digest)

SpecDigest == Init /\ [][NextDigest]_vars

(***************************************************************************)
(* SpecOps: construction, branching and the consuming operations on byte   *)
(* and integer destinations of 12, 32 and 64 bytes, at most MaxFillTrees   *)
(* instances.                                                              *)
(***************************************************************************)
U16x16 == Shape("u16", 16)

OpsShapes == { U8x12, U8x32, Shape("u64", 8) }

NextOps ==
  \/ \E seed \in RootSeeds : Room(MaxFillTrees) /\ FromSeed(seed)
  \/ \E i \in Slots, name \in Names : Room(MaxFillTrees) /\ Child(i, name)
  \/ \E i \in Slots, index \in Indices : Room(MaxFillTrees) /\ Index(i, index)
  \/ \E i \in Slots : Room(MaxFillTrees) /\ Digest(i, BaseDigest)
  \/ \E i \in Slots : Rng(i)
  \/ \E i \in Slots, shape \in OpsShapes : TryFillOp(i, shape)
  \/ \E i \in Slots : FillOp(i, U8x32)
  \/ \E i \in Slots : CreateSecretOp(i, U16x16)

SpecOps == Init /\ [][NextOps]_vars

(***************************************************************************)
(* SpecName: the constructors of Name and as_ref over NameInputs.          *)
(***************************************************************************)
NextName ==
  \/ \E s \in NameInputs : NameNewCall(s)
  \/ \E s \in NameInputs : FromStrCall(s)
  \/ \E s \in NameInputs : AsRefCall(s)

SpecName == Init /\ [][NextName]_vars

(***************************************************************************)
(* SpecSlice: from_slice over SliceInputs, at most MaxFillTrees instances. *)
(***************************************************************************)
NextSlice == \E bytes \in SliceInputs : Room(MaxFillTrees) /\ FromSlice(bytes)

SpecSlice == Init /\ [][NextSlice]_vars

(***************************************************************************)
(* SpecKdf: derive_key on the inputs of the tests of kdf.rs.               *)
(***************************************************************************)
NextKdf ==
  \/ \E in \in ReferenceInputs :
       DeriveKeyCall(in[1], IndexNumber(in[2]), TEST_CTX, TEST_KEY)
  \/ UpdateStep
  \/ CompressStep
  \/ FinalizeStep

SpecKdf == Init /\ [][NextKdf]_vars

(***************************************************************************)
(* SpecParams: derive_key up to its parameter block, over every output     *)
(* length, index variant and context of the input sets.                    *)
(***************************************************************************)
NextParams ==
  \E len \in ParamLens, index \in ParamIndices, context \in ParamContexts :
    DeriveKeyCall(len, index, context, TEST_KEY)

SpecParams == Init /\ [][NextParams]_vars

(***************************************************************************)
(* SpecEndian: fill, try_fill and create_secret into destinations of every *)
(* element type, on either target, at most MaxFillTrees instances.         *)
(***************************************************************************)
NextEndian ==
  \/ \E seed \in RootSeeds : Room(MaxFillTrees) /\ FromSeed(seed)
  \/ \E i \in Slots, shape \in EndianShapes : TryFillOp(i, shape)
  \/ \E i \in Slots, shape \in EndianShapes : FillOp(i, shape)
  \/ \E i \in Slots : CreateSecretOp(i, Shape("u128", 1))

SpecEndian == InitAnyTarget /\ [][NextEndian]_vars

(***************************************************************************)
(* SpecSizes: instances made from a seed, each filling a buffer of one of  *)
(* SizeShapes, and the bytes of two of them compared; at most MaxFillTrees *)
(* instances.                                                              *)
(***************************************************************************)
NextSizes ==
  \/ \E seed \in SizeSeeds : Room(MaxFillTrees) /\ FromSeed(seed)
  \/ \E i \in Slots, shape \in SizeShapes : FillOp(i, shape)
  \/ \E i, j \in Slots : i < j /\ BuffersStart(i, j)
  \/ BuffersCompress
  \/ BuffersFinalize

SpecSizes == Init /\ [][NextSizes]_vars

(***************************************************************************)
(* SpecFill: the consuming operations over destinations of every kind, on  *)
(* either target, at most MaxFillTrees instances.                          *)
(***************************************************************************)
NextFill ==
  \/ \E seed \in RootSeeds : Room(MaxFillTrees) /\ FromSeed(seed)
  \/ \E i \in Slots : Rng(i)
  \/ \E i \in Slots, shape \in FillShapes : TryFillOp(i, shape)
  \/ \E i \in Slots, shape \in FillShapes : FillOp(i, shape)
  \/ \E i \in Slots, shape \in SecretTypes : TryCreateSecretOp(i, shape)
  \/ \E i \in Slots, shape \in SecretTypes : CreateSecretOp(i, shape)
  \/ \E i \in Slots : DropOp(i)

SpecFill == InitAnyTarget /\ [][NextFill]_vars

(***************************************************************************)
(* Properties.                                                             *)
(***************************************************************************)
Made(i) == trees[i].status # "free"

Consumed(i) == trees[i].nterm > 0

\* a path of child / index / digest steps only
PurePath(path) == \A k \in 1..Len(path) : path[k][1] # "restore"

SameCall(o1, o2) ==
  /\ o1.op # "none"
  /\ o1.op = o2.op
  /\ (o1.op # "rng" => o1.shape = o2.shape)

SamePath(i, j) ==
  /\ Made(i) /\ Made(j)
  /\ trees[i].root = trees[j].root
  /\ trees[i].path = trees[j].path

\* C1 (determinism): two trees reached from the same root seed along the
\* same path of child / index / digest steps were made with the same seed,
\* and the same consuming call on both returned the same value, whatever
\* happened in between.
C1_Determinism ==
  \A i, j \in Slots :
    (SamePath(i, j) /\ PurePath(trees[i].path)) =>
      /\ trees[i].made = trees[j].made
      /\ SameCall(trees[i].outcome, trees[j].outcome) =>
           trees[i].outcome.ret = trees[j].outcome.ret

\* the same path of one step derived twice, and both results filled
C1_Witness ==
  \E i, j \in Slots :
    /\ i # j
    /\ SamePath(i, j)
    /\ Len(trees[i].path) = 1
    /\ PurePath(trees[i].path)
    /\ trees[i].outcome.op = "fill"
    /\ trees[j].outcome.op = "fill"
    /\ trees[i].outcome.ret.kind = "ok"

\* C2 (consumption): once rng, fill, try_fill, create_secret or
\* try_create_secret has been called on an instance, no step changes the
\* instance, derives a tree from it or reads its seed.
C2_ConsumedNeverUsedAgain ==
  [][\A i \in Slots :
       Consumed(i) =>
         /\ trees'[i] = trees[i]
         /\ \A j \in Slots :
              (trees[j].status = "free" /\ trees'[j].status # "free") =>
                trees'[j].parent # i
         /\ (store' # store => store'.from # i)]_vars

\* an instance consumed by a call that returned an error, with a child of
\* it still live
C2_Witness ==
  \E i, j \in Slots :
    /\ trees[i].nterm = 1
    /\ trees[i].status = "gone"
    /\ trees[i].outcome.ret.kind = "err"
    /\ Live(j)
    /\ trees[j].parent = i

\* C3 as stated: no derivation path is the subject of two consuming
\* operations.
C3_PathNeverReused ==
  \A i, j \in Slots :
    (i # j /\ Consumed(i) /\ Consumed(j)) => ~SamePath(i, j)

\* C3 as amended: no instance is the subject of two consuming operations
\* (a path can be derived again from its parent and consumed again).
C3_InstanceConsumedOnce == \A i \in Slots : trees[i].nterm <= 1

\* the same path derived twice from a live parent, both instances consumed
C3_Witness ==
  \E i, j \in Slots :
    /\ i # j
    /\ SamePath(i, j)
    /\ trees[i].parent # 0
    /\ trees[i].parent = trees[j].parent
    /\ trees[i].nterm = 1
    /\ trees[j].nterm = 1

\* C4 (branching and reading borrow): a step that derives a tree from
\* instance i or reads the seed of i finds i live and leaves i as it was;
\* the derived tree is a new instance, live, in another slot.
C4_BranchingLeavesParent ==
  [][\A i \in Slots :
       /\ \A j \in Slots :
            (trees[j].status = "free" /\ trees'[j].status # "free"
               /\ trees'[j].parent = i) =>
              /\ j # i
              /\ trees'[j].status = "live"
              /\ trees[i].status = "live"
              /\ trees'[i] = trees[i]
       /\ (store' # store /\ store'.from = i) =>
            /\ trees[i].status = "live"
            /\ trees'[i] = trees[i]
            /\ store'.bytes = trees[i].seed]_vars

\* a parent with two children whose seed was read as well, still live and
\* holding the seed it was made with
C4_Witness ==
  \E i, j, k \in Slots :
    /\ j # k
    /\ trees[j].parent = i
    /\ trees[k].parent = i
    /\ store.from = i
    /\ Live(i)
    /\ trees[i].seed = trees[i].made

ZeroSeed == Raw(Zeros(SEED_LEN))

\* C5 (zero on destruction): the storage of every tree that was dropped or
\* consumed holds 32 zero bytes, and so does the storage of the
\* intermediate seed of every digest call that has returned.
C5_ZeroOnDestruction ==
  \A i \in Slots :
    /\ trees[i].status = "gone" => trees[i].seed = ZeroSeed
    /\ (Made(i) /\ trees[i].parent # 0
          /\ trees[i].path[Len(trees[i].path)][1] = "digest") =>
         trees[i].tmp = ZeroSeed

\* a dropped tree, a tree consumed by a call that failed and a tree made by
\* digest and consumed by a call that succeeded
C5_Witness ==
  \E i, j, k \in Slots :
    /\ trees[i].status = "gone" /\ trees[i].nterm = 0
    /\ trees[j].status = "gone" /\ trees[j].nterm = 1
    /\ trees[j].outcome.ret.kind \in {"err", "panic"}
    /\ trees[k].status = "gone" /\ trees[k].nterm = 1
    /\ trees[k].outcome.ret.kind = "ok"
    /\ trees[k].tmp # NoBytes
    /\ trees[k].made # ZeroSeed

\* the byte length of a destination: element count times element width
ByteLength(shape) == shape.cnt * SizeOf(shape.ty)

FillErr(variant, size, bound) ==
  [kind |-> "err", err |-> [variant |-> variant, size |-> size, bound |-> bound]]

\* C6 (buffer bounds): try_fill and try_create_secret on a destination of
\* n bytes return Ok exactly when 16 <= n <= 64, BufferTooSmall{n, 16} when
\* n < 16 and BufferTooLarge{n, 64} when n > 64.
C6_BufferBounds ==
  \A i \in Slots :
    trees[i].outcome.op \in {"try_fill", "try_create_secret"} =>
      LET n == ByteLength(trees[i].outcome.shape)
          ret == trees[i].outcome.ret
      IN /\ (ret.kind = "ok") <=> (16 <= n /\ n <= 64)
         /\ n < 16 => ret = FillErr("BufferTooSmall", n, 16)
         /\ n > 64 => ret = FillErr("BufferTooLarge", n, 64)

\* try_fill into [u64; 10] returned BufferTooLarge{80, 64} and
\* try_create_secret::<u64> returned BufferTooSmall{8, 16}
C6_Witness ==
  \E i, j \in Slots :
    /\ trees[i].outcome.op = "try_fill"
    /\ trees[i].outcome.shape = Shape("u64", 10)
    /\ trees[i].outcome.ret = FillErr("BufferTooLarge", 80, 64)
    /\ trees[j].outcome.op = "try_create_secret"
    /\ trees[j].outcome.shape = Shape("u64", 1)
    /\ trees[j].outcome.ret = FillErr("BufferTooSmall", 8, 16)

Contains(msg, piece) == \E k \in 1..Len(msg) : msg[k] = piece

Agree(panicking, fallible) ==
  /\ (panicking.kind = "panic") <=> (fallible.kind = "err")
  /\ fallible.kind = "err" =>
       /\ Contains(panicking.msg, ToString(fallible.err.size))
       /\ Contains(panicking.msg, ToString(fallible.err.bound))
  /\ fallible.kind = "ok" => panicking = fallible

\* C7 (fill and try_fill agree): on trees with the same seed and for the
\* same destination, fill panics exactly when try_fill returns an error,
\* the panic message holds the size and the bound of that error, and when
\* try_fill succeeds both leave the same value; likewise create_secret and
\* try_create_secret.
C7_FillAgreesWithTryFill ==
  \A i, j \in Slots :
    (/\ trees[i].made = trees[j].made
     /\ trees[i].outcome.op # "none"
     /\ trees[j].outcome.op # "none"
     /\ << trees[i].outcome.op, trees[j].outcome.op >> \in
          { << "fill", "try_fill" >>,
            << "create_secret", "try_create_secret" >> }
     /\ trees[i].outcome.shape = trees[j].outcome.shape) =>
      Agree(trees[i].outcome.ret, trees[j].outcome.ret)

\* fill panicked on a destination for which try_fill, on a tree with the
\* same seed, returned an error
C7_Witness ==
  \E i, j \in Slots :
    /\ trees[i].made = trees[j].made
    /\ trees[i].outcome.op = "fill"
    /\ trees[j].outcome.op = "try_fill"
    /\ trees[i].outcome.shape = trees[j].outcome.shape
    /\ trees[i].outcome.ret.kind = "panic"
    /\ trees[j].outcome.ret.kind = "err"

IsDerivation(step) == step[1] # "restore"

\* a path without its restore steps
Strip(path) == SelectSeq(path, IsDerivation)

Restored(i) == Made(i) /\ ~PurePath(trees[i].path)

\* C8 (seed round trip): a tree that descends from one rebuilt by
\* from_slice out of the bytes seed() exposed has the seed, and returns
\* from the same consuming call the value, of every tree reached from the
\* same root by the same child / index / digest steps.
C8_SeedRoundTrip ==
  \A i, j \in Slots :
    (/\ Restored(j)
     /\ Made(i)
     /\ trees[i].root = trees[j].root
     /\ Strip(trees[i].path) = Strip(trees[j].path)) =>
      /\ trees[i].made = trees[j].made
      /\ SameCall(trees[i].outcome, trees[j].outcome) =>
           trees[i].outcome.ret = trees[j].outcome.ret

\* a tree and the tree rebuilt from its seed, with a child of each along
\* the same step, both children filled
C8_Witness ==
  \E i, j \in Slots :
    /\ Restored(j)
    /\ Made(i)
    /\ PurePath(trees[i].path)
    /\ trees[i].root = trees[j].root
    /\ Strip(trees[j].path) = trees[i].path
    /\ trees[j].parent # 0
    /\ trees[i].parent # 0
    /\ trees[i].parent # trees[j].parent
    /\ trees[i].outcome.op = "fill"
    /\ trees[j].outcome.op = "fill"

LastStep(i) == trees[i].path[Len(trees[i].path)]

Siblings(j, k) ==
  /\ Made(j) /\ Made(k)
  /\ trees[j].parent # 0
  /\ trees[j].parent = trees[k].parent

BitPositions == 0..(8 * 2 * SALT_LEN - 1)

\* C9 (digest sensitivity): for every live tree and each of the 256 bit
\* positions of a 32-byte digest, the child by the digest with that bit
\* flipped has another seed than the child by the digest; and two children
\* a tree got by digests that differ in one bit have different seeds.
C9_DigestSensitivity ==
  /\ \A i \in Slots :
       Live(i) =>
         LET plain == DigestSeed(trees[i].seed, BaseDigest)
         IN /\ ~plain.panic
            /\ \A pos \in BitPositions :
                 LET flipped == DigestSeed(trees[i].seed,
                                           FlipBit(BaseDigest, pos))
                 IN ~flipped.panic /\ plain.out # flipped.out
  /\ \A j, k \in Slots :
       (/\ Siblings(j, k)
        /\ LastStep(j)[1] = "digest"
        /\ LastStep(k)[1] = "digest"
        /\ \E pos \in BitPositions :
             LastStep(k)[2] = FlipBit(LastStep(j)[2], pos)) =>
         trees[j].made # trees[k].made

\* a tree with a child by a digest and a child by that digest with a bit
\* of its second half flipped
C9_Witness ==
  \E j, k \in Slots :
    /\ Siblings(j, k)
    /\ Live(trees[j].parent)
    /\ LastStep(j) = Step("digest", BaseDigest)
    /\ LastStep(k) = Step("digest", FlipBit(BaseDigest, 250))
    /\ trees[j].made # trees[k].made

\* the 16 salt bytes of a name and of an index
NameSaltBytes(name) == name

IndexSaltBytes(index) ==
  << index % 256, (index \div 256) % 256, (index \div 65536) % 256,
     (index \div 16777216) % 256 >> \o Zeros(SALT_LEN - 4)

\* C10 (name / index non-collision): a child by a name and a child by an
\* index of the same tree have different seeds when the salt bytes of the
\* name and of the index are the same.
C10_NameIndexNoCollision ==
  \A j, k \in Slots :
    (/\ Siblings(j, k)
     /\ LastStep(j)[1] = "child"
     /\ LastStep(k)[1] = "index"
     /\ \E index \in Indices :
          /\ LastStep(k)[2] = U64(index)
          /\ NameSaltBytes(LastStep(j)[2]) = IndexSaltBytes(index)) =>
      trees[j].made # trees[k].made

\* child(Name::new("A")) and index(0x41) of one tree
C10_Witness ==
  \E j, k \in Slots :
    /\ Siblings(j, k)
    /\ LastStep(j) = Step("child", << 65 >> \o Zeros(15))
    /\ LastStep(k) = Step("index", U64(65))
    /\ trees[j].made # trees[k].made

\* an outcome of fill, try_fill, create_secret or try_create_secret that
\* filled the destination
Filled(o) ==
  /\ o.op \in {"fill", "try_fill", "create_secret", "try_create_secret"}
  /\ o.ret.kind = "ok"

\* an outcome of rng that returned a generator
Seeded(o) == o.op = "rng" /\ o.ret.kind = "ok"

\* the words of a parameter block that hold the salt and the context
SaltWords(digest) == << digest.params[5], digest.params[6] >>

ContextWord(digest) == digest.params[7]

BytesTag == << 98, 121, 116, 101, 115, 0, 0, 0 >>

RngTag == << 114, 110, 103, 0, 0, 0, 0, 0 >>

\* C11 (context separation of fill and rng): for two instances with the
\* same seed, one consumed by a fill that succeeded and one by rng, both
\* derivations are keyed by that seed with the zero salt, the first under
\* the tag "bytes" and the second under the tag "rng", and the value that
\* filled the destination is not the value that seeded the generator.
C11_FillRngContextSeparation ==
  \A i, j \in Slots :
    (/\ trees[i].made = trees[j].made
     /\ Filled(trees[i].outcome)
     /\ Seeded(trees[j].outcome)) =>
      LET f == trees[i].outcome.ret.data.src
          r == trees[j].outcome.ret.data.src
      IN /\ f.key = trees[i].made
         /\ r.key = trees[j].made
         /\ SaltWords(f) = << U64(0), U64(0) >>
         /\ SaltWords(r) = << U64(0), U64(0) >>
         /\ ContextWord(f) = ReadU64LE(BytesTag)
         /\ ContextWord(r) = ReadU64LE(RngTag)
         /\ f # r

\* two instances with the same seed, one filled 32 bytes and one seeded a
\* generator
C11_Witness ==
  \E i, j \in Slots :
    /\ trees[i].made = trees[j].made
    /\ trees[i].outcome.op = "fill"
    /\ Filled(trees[i].outcome)
    /\ ByteLength(trees[i].outcome.shape) = SEED_LEN
    /\ Seeded(trees[j].outcome)

HasNull(s) == \E i \in 1..Len(s) : s[i] = 0

\* what the contract of Name accepts
ValidName(s) == Len(s) <= 16 /\ ~HasNull(s)

\* 16 bytes: the bytes of s, then zeros
Padded(s) == [i \in 1..16 |-> IF i <= Len(s) THEN s[i] ELSE 0]

\* C12 (name validation): from_str returns a Name exactly for the strings
\* of at most 16 bytes without a zero byte, TooLong for more than 16 bytes
\* and NullChar for at most 16 bytes with a zero byte; Name::new panics
\* exactly when from_str returns an error, with the message of the same
\* reason; a Name that is returned is the bytes of the string followed by
\* zeros up to 16 bytes, the same from both constructors.
C12_NameValidation ==
  /\ call.op = "from_str" =>
       /\ call.ret.ok <=> ValidName(call.arg)
       /\ Len(call.arg) > 16 => call.ret = [ok |-> FALSE, err |-> "TooLong"]
       /\ (Len(call.arg) <= 16 /\ HasNull(call.arg)) =>
            call.ret = [ok |-> FALSE, err |-> "NullChar"]
       /\ ValidName(call.arg) => call.ret.name = Padded(call.arg)
  /\ call.op = "Name::new" =>
       LET parsed == FromStr(call.arg)
       IN /\ call.ret.panic <=> ~parsed.ok
          /\ call.ret.panic <=> ~ValidName(call.arg)
          /\ (~parsed.ok /\ parsed.err = "TooLong") =>
               call.ret.msg = "name is too long (should be <=16 bytes)"
          /\ (~parsed.ok /\ parsed.err = "NullChar") =>
               call.ret.msg = "name contains a null char"
          /\ parsed.ok =>
               /\ call.ret.name = parsed.name
               /\ call.ret.name = Padded(call.arg)

\* Name::new called on a string of 17 bytes with a null char in it
C12_Witness ==
  /\ call.op = "Name::new"
  /\ Len(call.arg) = 17
  /\ HasNull(call.arg)
  /\ call.ret.panic
  /\ call.ret.msg = "name is too long (should be <=16 bytes)"

\* C13 (name round trip and injectivity): as_ref of Name::new(s) is s for
\* every valid s; a string of 16 bytes is stored as it is and the empty
\* string as 16 zero bytes; and no other valid string has the same Name.
C13_NameRoundTrip ==
  call.op = "as_ref" =>
    /\ ValidName(call.arg)
    /\ call.ret = call.arg
    /\ Len(call.arg) = 16 => call.name = call.arg
    /\ Len(call.arg) = 0 => call.name = Zeros(16)
    /\ \A t \in NameInputs :
         (ValidName(t) /\ t # call.arg) =>
           /\ ~NameNew(t).panic
           /\ NameNew(t).name # call.name

\* the way back from the Name of a string of 16 bytes
C13_Witness ==
  /\ call.op = "as_ref"
  /\ Len(call.arg) = 16
  /\ call.name = call.arg
  /\ call.ret = call.arg

\* C14 (from_slice accepts exactly 32 bytes): a call of from_slice with a
\* slice of another length returns an error and leaves every instance as it
\* was; a call with a slice of 32 bytes returns no error and makes one new
\* live instance whose seed is the slice, leaving the others as they were.
C14_FromSliceLength ==
  [][/\ call'.op = "from_slice"
     /\ ByteLen(call'.arg) # 32 => (fromSliceErr' /\ trees' = trees)
     /\ ByteLen(call'.arg) = 32 =>
          /\ ~fromSliceErr'
          /\ \E j \in Slots :
               /\ trees[j].status = "free"
               /\ trees'[j].status = "live"
               /\ trees'[j].seed = call'.arg
               /\ \A k \in Slots \ {j} : trees'[k] = trees[k]]_vars

\* from_slice returned an error for a slice of 33 bytes after it had made
\* a tree from a slice of 32 bytes
C14_Witness ==
  /\ call.op = "from_slice"
  /\ ByteLen(call.arg) = 33
  /\ fromSliceErr
  /\ \E j \in Slots : Live(j) /\ ByteLen(trees[j].seed) = 32
  /\ \E j \in Slots : trees[j].status = "free"

\* C15 (reference compatibility): derive_key with the key 0, 1, ..., 31
\* and the context "KDF test" writes, for 64 bytes and the index i in 0..9,
\* the i-th vector of 64 bytes, and for L bytes and the index L in
\* 16, 20, ..., 40, the vector of L bytes.
C15_ReferenceVectors ==
  call.op = "derived" =>
    /\ call.key = TEST_KEY /\ call.context = TEST_CTX
    /\ call.index.variant = "Number"
    /\ Len(call.out) = call.len
    /\ \/ /\ call.len = 64
          /\ call.index.n \in 0..9
          /\ call.out = EXP_64[call.index.n + 1]
       \/ /\ call.len \in { 4 * k : k \in 4..10 }
          /\ call.index.n = call.len
          /\ call.out = EXP_VARYING[(call.len \div 4) - 3]

\* the 64 bytes for the index 1 begin with 02 50 7f 14
C15_Witness ==
  /\ call.op = "derived"
  /\ call.len = 64
  /\ call.index = IndexNumber(1)
  /\ SubSeq(call.out, 1, 4) = << 2, 80, 127, 20 >>

\* the output length a digest was asked for: the low byte of word 0 of its
\* parameter block
RequestedLen(digest) == digest.params[1][1] % 256

IsDigestChild(i) ==
  /\ Made(i)
  /\ trees[i].parent # 0
  /\ LastStep(i)[1] = "digest"

NameTag == << 110, 97, 109, 101, 0, 0, 0, 0 >>

IndexTag == << 105, 110, 100, 101, 120, 0, 0, 0 >>

\* a 16-byte salt as the two words of the parameter block
SaltOf(bytes) ==
  << ReadU64LE(SubSeq(bytes, 1, 8)), ReadU64LE(SubSeq(bytes, 9, 16)) >>

\* one call of the primitive: key, 16 salt bytes, 8 context bytes, length,
\* and the key followed by 96 zero bytes as the message
OneCall(digest, key, salt, tag, len) ==
  /\ digest.kind = "blake2b"
  /\ digest.key = key
  /\ ByteLen(key) = 32
  /\ SaltWords(digest) = SaltOf(salt)
  /\ ContextWord(digest) = ReadU64LE(tag)
  /\ RequestedLen(digest) = len
  /\ digest.pad = 96

Digest0Tag == << 100, 105, 103, 101, 115, 116, 48, 0 >>

Digest1Tag == << 100, 105, 103, 101, 115, 116, 49, 0 >>

\* C18 (digest chaining): the seed of a child by the digest d is one call
\* of the primitive keyed by an intermediate seed with salt d[16..32] and
\* context "digest1", where the intermediate seed is one call keyed by the
\* seed of the parent with salt d[0..16] and context "digest0"; both ask
\* for 32 bytes and the seed of the parent is the key of the first call
\* only.
C18_DigestChaining ==
  \A i \in Slots :
    IsDigestChild(i) =>
      LET d == LastStep(i)[2]
          parentSeed == trees[trees[i].parent].made
          child == trees[i].made
          intermediate == child.key
      IN /\ Len(d) = 32
         /\ OneCall(intermediate, parentSeed, SubSeq(d, 1, 16), Digest0Tag, 32)
         /\ OneCall(child, intermediate, SubSeq(d, 17, 32), Digest1Tag, 32)
         /\ intermediate # parentSeed

\* a child by digest of a child by digest of a root
C18_Witness ==
  \E i, j \in Slots :
    /\ IsDigestChild(i)
    /\ IsDigestChild(j)
    /\ trees[j].parent = i
    /\ trees[trees[i].parent].made.kind = "raw"
    /\ trees[j].made.key.key = trees[i].made

\* the 16 salt bytes an index stands for
SaltBytesOf(index) ==
  CASE index.variant = "None" -> Zeros(16)
    [] index.variant = "Number" -> IndexSaltBytes(index.n)
    [] index.variant = "Bytes" -> index.bytes

ZeroWord == << 0, 0, 0, 0 >>

\* C19 (parameter block layout): for every length L in 16..64 derive_key
\* builds a block, and in it word 0 is L | 32 << 8 | 1 << 16 | 1 << 24,
\* words 1-3 and 7 are zero, the little-endian bytes of words 4 and 5 are
\* the 16 salt bytes of the index (zeros for None, the little-endian number
\* then zeros for Number, the bytes themselves for Bytes) and the
\* little-endian bytes of word 6 are the context.
C19_ParameterBlock ==
  call.op = "derive_key" =>
    /\ (16 <= call.len /\ call.len <= 64) => ~call.panic
    /\ ~call.panic =>
         LET p == call.digest.params
         IN /\ Len(p) = 8
            /\ p[1] = << call.len + 32 * 256, 1 + 1 * 256, 0, 0 >>
            /\ p[2] = ZeroWord /\ p[3] = ZeroWord /\ p[4] = ZeroWord
            /\ WriteU64LE(p[5]) \o WriteU64LE(p[6]) = SaltBytesOf(call.index)
            /\ WriteU64LE(p[7]) = call.context
            /\ p[8] = ZeroWord

\* the block for 64 bytes, the index Number(0x01020304) and the context
\* "KDF test"
C19_Witness ==
  /\ call.op = "derive_key"
  /\ ~call.panic
  /\ call.len = 64
  /\ call.index = IndexNumber(16909060)
  /\ call.context = TEST_CTX
  /\ call.digest.params[1] = << 8256, 257, 0, 0 >>
  /\ call.digest.params[5] = << 772, 258, 0, 0 >>

\* the little-endian reading of the hash bytes of element j of width w:
\* the positions of its bytes in the output, least significant first
LittleEndianOf(j, w) == [k \in 1..w |-> (j - 1) * w + k]

\* C20 (endianness normalization): after a fill that succeeded, on a
\* little-endian and on a big-endian target alike, the destination has as
\* many elements as it had and the value of each element is the
\* little-endian reading of the bytes of the output at its place; an
\* element of a byte buffer is the byte of the output at its place.
C20_EndiannessNormalized ==
  \A i \in Slots :
    Filled(trees[i].outcome) =>
      LET shape == trees[i].outcome.shape
          elems == trees[i].outcome.ret.data.elems
          w == ByteLength(shape) \div shape.cnt
      IN /\ Len(elems) = shape.cnt
         /\ ByteLen(trees[i].outcome.ret.data.src) = shape.cnt * w
         /\ \A j \in 1..shape.cnt : elems[j] = LittleEndianOf(j, w)
         /\ shape.ty = "u8" => \A j \in 1..shape.cnt : elems[j] = << j >>

\* on a big-endian target, four u32 were filled and the second is made of
\* the bytes 5..8 of the output, byte 5 the least significant
C20_Witness ==
  \E i \in Slots :
    /\ bigEndian
    /\ Filled(trees[i].outcome)
    /\ trees[i].outcome.shape = Shape("u32", 4)
    /\ trees[i].outcome.ret.data.elems[2] = << 5, 6, 7, 8 >>

\* the bytes of the buffer of instance i in a finished comparison
BufferOf(i) == IF call.a = i THEN call.bytes[1] ELSE call.bytes[2]

Returned32(r) ==
  /\ ~r.panic
  /\ RequestedLen(r.out) = SEED_LEN
  /\ ByteLen(r.out) = SEED_LEN

\* C22 (branching and rng never fail): no call of child, index or digest
\* has panicked; on the seed of every live instance, child with every name,
\* index with every index, both derivations of digest with every digest
\* and rng ask derive_key for exactly 32 bytes and return a value; every
\* rng that ran returned a generator; and an operation that returned an
\* error or panicked is one of the fill / create_secret family, on a
\* destination whose byte length is outside 16..64.
C22_BranchingNeverFails ==
  /\ aborted = << >>
  /\ \A i \in Slots :
       /\ Live(i) =>
            /\ \A name \in Names : Returned32(ChildSeed(trees[i].seed, name))
            /\ \A index \in Indices :
                 Returned32(IndexSeed(trees[i].seed, index))
            /\ \A digest \in Digests :
                 /\ Returned32(IntermediateSeed(trees[i].seed, digest))
                 /\ Returned32(DigestSeed(trees[i].seed, digest))
            /\ LET g == RngOf(trees[i].seed)
               IN /\ g.kind = "ok"
                  /\ RequestedLen(g.data.src) = SEED_LEN
       /\ (Made(i) /\ trees[i].parent # 0) => trees[i].made.kind = "blake2b"
       /\ trees[i].outcome.op = "rng" => trees[i].outcome.ret.kind = "ok"
       /\ (trees[i].outcome.op # "none"
           /\ trees[i].outcome.ret.kind # "ok") =>
            /\ trees[i].outcome.op \in {"fill", "try_fill", "create_secret",
                                        "try_create_secret"}
            /\ ~(/\ ByteLength(trees[i].outcome.shape) >= 16
                 /\ ByteLength(trees[i].outcome.shape) <= 64)

\* a tree that gave a child by digest and then a generator, while the
\* child failed to fill 12 bytes
C22_Witness ==
  \E i, j \in Slots :
    /\ Seeded(trees[i].outcome)
    /\ trees[j].parent = i
    /\ LastStep(j)[1] = "digest"
    /\ trees[j].outcome.op = "try_fill"
    /\ trees[j].outcome.ret.kind = "err"
    /\ trees[j].outcome.ret.err.variant = "BufferTooSmall"
    /\ aborted = << >>

====
